---- MODULE Spec2Model ----
(***************************************************************************)
(* gemara-mcp, package internal/tool: the process-wide lexicon cache       *)
(* (lexiconCache, lexiconCacheTime), the three entry points that read and  *)
(* write it (GetLexicon, HandleLexiconResource, getLexiconWithURL), the    *)
(* remote fetcher fetchLexiconFromURL, and ValidateGemaraArtifact.         *)
(*                                                                         *)
(* The MCP server runs handlers of concurrent requests concurrently and    *)
(* the package holds no lock, so every read and every write of one of the  *)
(* two package variables is one step of the calling goroutine.  A slice    *)
(* is a header of several words: an assignment to lexiconCache stores the  *)
(* length word and the data pointer in two steps, and json.Marshal's       *)
(* argument is loaded in two steps, in either order, so that the stores    *)
(* and loads of two goroutines interleave; len(lexiconCache) reads one     *)
(* word.  time.Now() is evaluated in one step and its value stored in      *)
(* the next; a time.Time is read and stored as one value.                  *)
(*                                                                         *)
(* Time is counted in hours.  The zero time.Time is 0; the clock starts    *)
(* at 1, so time.Now() is never the zero time.                             *)
(***************************************************************************)
EXTENDS Integers, Sequences, FiniteSets, TLC

\* ---------------------------------------------------------------- bounds
MaxTicks == 2

\* Two concurrent requests: every race on the cache is a race of two calls.
Callers == {1, 2}

\* ------------------------------------------------------ program constants
lexiconCacheTTL == 24
lexiconURL == "https://raw.githubusercontent.com/gemaraproj/gemara/main/docs/lexicon.yaml"
LexiconResourceURI == "https://gemara.openssf.org/model/02-definitions"
LexiconResourceURIAlias == "gemara://lexicon"
lexiconResourceURI == LexiconResourceURI
StatusOK == 200

\* the clock advances by half a TTL at a time: ages 0, TTL/2, TTL, ...
TickHours == lexiconCacheTTL \div 2
MaxTime == 1 + MaxTicks * TickHours

\* ------------------------------------------------------------ Go values
\* A []LexiconEntry is a slice header: the data pointer (nil, or the array
\* items it points to) and the length word.  The nil slice and the empty
\* slice both have length 0 but encode differently.  An entry is named by
\* its term.
NilSlice == [nil |-> TRUE, items |-> <<>>, len |-> 0]
MkSlice(s) == [nil |-> FALSE, items |-> s, len |-> Len(s)]
len(s) == s.len

\* the elements s[0:len(s)]: a header whose length word exceeds its array
\* reads the memory behind the array
Elems(s) ==
    [i \in 1..s.len |-> IF i <= Len(s.items) THEN s.items[i] ELSE "?"]

\* error values: nil is the empty sequence, fmt.Errorf("p: %w", e) prepends p
NoErr == <<>>
Errorf(prefix, e) == <<prefix>> \o e

Range(s) == {s[i] : i \in 1..Len(s)}

\* ------------------------------------------------------- remote document
\* The bodies the remote source can serve: an empty YAML list, a lexicon
\* of two entries, and a document that is not YAML.
Bodies ==
    { <<"[]">>, <<"Assessment", "Control">>, <<"[unclosed">> }

\* yaml.Unmarshal(body, &entries)
yamlUnmarshal(body) ==
    IF "[unclosed" \in Range(body)
    THEN [entries |-> NilSlice, err |-> <<"sequence was used where mapping is expected">>]
    ELSE IF body = <<"[]">>
         THEN [entries |-> MkSlice(<<>>), err |-> NoErr]
         ELSE [entries |-> MkSlice(body), err |-> NoErr]

\* what client.Do and io.ReadAll can produce for one GET
StatusCodes == {200, 500}
Responses(body) ==
    { [doErr |-> TRUE, status |-> 0, readErr |-> FALSE, body |-> <<>>] }
    \cup { [doErr |-> FALSE, status |-> s, readErr |-> FALSE, body |-> body]
             : s \in StatusCodes }
    \cup { [doErr |-> FALSE, status |-> StatusOK, readErr |-> TRUE, body |-> <<>>] }

\* fetchLexiconFromURL, but a status failure does not say which status
fetchLexiconFromURL_HidesStatus(resp) ==
    IF resp.doErr
    THEN [entries |-> NilSlice,
          err |-> Errorf("failed to fetch lexicon", <<"context deadline exceeded">>)]
    ELSE IF resp.status # StatusOK
    THEN [entries |-> NilSlice, err |-> <<"unexpected status code">>]
    ELSE IF resp.readErr
    THEN [entries |-> NilSlice,
          err |-> Errorf("failed to read response body", <<"unexpected EOF">>)]
    ELSE LET y == yamlUnmarshal(resp.body) IN
         IF y.err # NoErr
         THEN [entries |-> NilSlice, err |-> Errorf("failed to parse YAML", y.err)]
         ELSE [entries |-> y.entries, err |-> NoErr]

\* fetchLexiconFromURL: one GET, decode, no retry, no access to the cache
fetchLexiconFromURL(resp) ==
    IF resp.doErr
    THEN [entries |-> NilSlice,
          err |-> Errorf("failed to fetch lexicon", <<"context deadline exceeded">>)]
    ELSE IF resp.status # StatusOK
    THEN [entries |-> NilSlice,
          err |-> <<"unexpected status code: %d", ToString(resp.status)>>]
    ELSE IF resp.readErr
    THEN [entries |-> NilSlice,
          err |-> Errorf("failed to read response body", <<"unexpected EOF">>)]
    ELSE LET y == yamlUnmarshal(resp.body) IN
         IF y.err # NoErr
         THEN [entries |-> NilSlice, err |-> Errorf("failed to parse YAML", y.err)]
         ELSE [entries |-> y.entries, err |-> NoErr]

\* json.Marshal(lexiconCache) and json.Unmarshal([]byte(text), &entries)
jsonMarshal(s) ==
    IF s.nil THEN <<"null">> ELSE <<"[">> \o Elems(s) \o <<"]">>
jsonUnmarshal(text) ==
    IF text = <<"null">>
    THEN [entries |-> NilSlice, err |-> NoErr]
    ELSE IF Len(text) >= 2 /\ text[1] = "[" /\ text[Len(text)] = "]"
         THEN [entries |-> MkSlice(SubSeq(text, 2, Len(text) - 1)), err |-> NoErr]
         ELSE [entries |-> NilSlice, err |-> <<"invalid character">>]

\* ------------------------------------------------- ValidateGemaraArtifact
\* Strings of the validator: a definition name is the sequence of its
\* parts, so that a leading "#" can be tested and prepended.
HasPrefix(s, c) == Len(s) >= 1 /\ s[1] = c

Definitions ==
    { <<>>, <<"#">>, <<"#", "ControlCatalog">>, <<"ControlCatalog">>,
      <<"#", "Missing">>, <<"Missing">> }

\* the definitions the Gemara CUE module holds
SchemaDefinitions == { <<"#", "ControlCatalog">> }

\* artifact texts: empty, not YAML, YAML that does not build as CUE data,
\* YAML of another kind, and a valid control catalog
Contents ==
    { "", "invalid: yaml: [unclosed", "a: 1\na: 2", "kind: ConfigMap", "good-ccc.yaml" }

\* what the registry and the module loader can do
SchemaEnvs == { "ok", "registry", "noinstances", "loaderr", "builderr" }

\* err.Error() of unified.Validate, as its lines
ValidateReports ==
    { <<"#ControlCatalog.title: incomplete value string">>,
      <<"", "#ControlCatalog.metadata: field is required", " ",
        "kind: field not allowed", "">> }

IsBlank(line) == line \in {"", " "}

RECURSIVE TrimLeft(_)
TrimLeft(lines) ==
    IF lines # <<>> /\ IsBlank(Head(lines)) THEN TrimLeft(Tail(lines)) ELSE lines

RECURSIVE TrimRight(_)
TrimRight(lines) ==
    IF lines # <<>> /\ IsBlank(lines[Len(lines)])
    THEN TrimRight(SubSeq(lines, 1, Len(lines) - 1))
    ELSE lines

\* strings.Split(strings.TrimSpace(errorOutput), "\n"); the empty text
\* splits into one empty line
SplitTrimmed(lines) ==
    LET t == TrimRight(TrimLeft(lines)) IN IF t = <<>> THEN <<"">> ELSE t

\* FilterBlank, but no line is dropped
FilterBlank_KeepsAll(lines) == lines

\* the loop of resource.go:212-217
FilterBlank(lines) == SelectSeq(lines, LAMBDA l : ~IsBlank(l))

NoValidateOut == [type |-> "OutputValidateGemaraArtifact", valid |-> FALSE,
                  errors |-> <<>>, message |-> <<>>]

\* RequireInputs, but only the artifact text is checked
RequireInputs_SkipsDefinition(input) ==
    IF input.ArtifactContent = ""
    THEN <<"artifact_content is required">>
    ELSE NoErr

\* resource.go:132-137: the error of the input checks, nil when both pass
RequireInputs(input) ==
    IF input.ArtifactContent = ""
    THEN <<"artifact_content is required">>
    ELSE IF input.Definition = <<>>
         THEN <<"definition is required">>
         ELSE NoErr

\* NormalizeDefinition, but "#" is prepended to every name
NormalizeDefinition_AlwaysPrepends(name) == <<"#">> \o name

\* resource.go:140-143
NormalizeDefinition(name) ==
    IF HasPrefix(name, "#") THEN name ELSE <<"#">> \o name

\* resource.go:146-170: registry, module load and schema build in env
LoadSchema(env) ==
    IF env = "registry"
    THEN [err |-> Errorf("failed to create CUE registry", <<"no registry">>),
          calls |-> <<"modconfig.NewRegistry">>]
    ELSE IF env = "noinstances"
    THEN [err |-> <<"failed to load module: no instances returned">>,
          calls |-> <<"modconfig.NewRegistry", "load.Instances">>]
    ELSE IF env = "loaderr"
    THEN [err |-> Errorf("failed to load module", <<"module not found">>),
          calls |-> <<"modconfig.NewRegistry", "load.Instances">>]
    ELSE IF env = "builderr"
    THEN [err |-> Errorf("failed to build schema", <<"build failed">>),
          calls |-> <<"modconfig.NewRegistry", "load.Instances", "cueCtx.BuildInstance">>]
    ELSE [err |-> NoErr,
          calls |-> <<"modconfig.NewRegistry", "load.Instances", "cueCtx.BuildInstance">>]

\* yaml.Extract("artifact.yaml", content): its error, nil for YAML
yamlExtract(content) ==
    IF content = "invalid: yaml: [unclosed"
    THEN <<"did not find expected ',' or ']'">>
    ELSE NoErr

\* cueCtx.BuildFile(yamlFile).Err()
BuildFileErr(content) ==
    IF content = "a: 1\na: 2" THEN <<"conflicting values 1 and 2">> ELSE NoErr

\* YAMLExtractFailure, but the parse error is returned as the function error
YAMLExtractFailure_AsError(e, calls) ==
    [err |-> Errorf("failed to parse YAML", e), calls |-> calls,
     out |-> NoValidateOut]

\* resource.go:181-189: the text is not YAML
YAMLExtractFailure(e, calls) ==
    [err |-> NoErr, calls |-> calls,
     out |-> [type |-> "OutputValidateGemaraArtifact", valid |-> FALSE,
              errors |-> << <<"Failed to parse YAML: %v">> \o e >>,
              message |-> <<"Validation failed: invalid YAML: %v">> \o e]]

\* resource.go:193-201: the YAML does not build as CUE data
BuildFileFailure(e, calls) ==
    [err |-> NoErr, calls |-> calls,
     out |-> [type |-> "OutputValidateGemaraArtifact", valid |-> FALSE,
              errors |-> << <<"Failed to build data instance: %v">> \o e >>,
              message |-> <<"Validation failed: %v">> \o e]]

\* resource.go:207-225: the document does not satisfy the definition
ValidateFailure(report, calls) ==
    LET lines == FilterBlank(SplitTrimmed(report)) IN
    [err |-> NoErr, calls |-> calls,
     out |-> [type |-> "OutputValidateGemaraArtifact", valid |-> FALSE,
              errors |-> [i \in DOMAIN lines |-> <<lines[i]>>],
              message |-> <<"Validation failed: %v">> \o report]]

\* resource.go:227-233
ValidateSuccess(calls) ==
    [err |-> NoErr, calls |-> calls,
     out |-> [type |-> "OutputValidateGemaraArtifact", valid |-> TRUE,
              errors |-> <<>>, message |-> <<"Artifact is valid">>]]

\* ValidateGemaraArtifact(ctx, _, input) in the world env, where report is
\* what the schema engine says of a document that does not satisfy the
\* definition.  calls lists the registry, loader and engine calls made.
ValidateGemaraArtifact(input, env, report) ==
    LET fail(e, c) == [err |-> e, out |-> NoValidateOut, calls |-> c]
        definition == NormalizeDefinition(input.Definition)
        schema == LoadSchema(env)
        c4 == Append(schema.calls, "schema.LookupPath")
        c5 == Append(c4, "yaml.Extract")
        c6 == Append(c5, "cueCtx.BuildFile")
        c7 == Append(c6, "unified.Validate")
    IN
    IF RequireInputs(input) # NoErr
    THEN fail(RequireInputs(input), <<>>)
    ELSE IF schema.err # NoErr
    THEN fail(schema.err, schema.calls)
    ELSE IF definition \notin SchemaDefinitions
    THEN fail(<<"definition %s not found in schema">> \o definition, c4)
    ELSE IF yamlExtract(input.ArtifactContent) # NoErr
    THEN YAMLExtractFailure(yamlExtract(input.ArtifactContent), c5)
    ELSE IF BuildFileErr(input.ArtifactContent) # NoErr
    THEN BuildFileFailure(BuildFileErr(input.ArtifactContent), c6)
    ELSE IF input.ArtifactContent # "good-ccc.yaml"
    THEN ValidateFailure(report, c7)
    ELSE ValidateSuccess(c7)

\* the inputs and worlds of a validation
ValidateCases ==
    [input : [ArtifactContent : Contents, Definition : Definitions],
     env : SchemaEnvs, report : ValidateReports]

\* the validations run next to lexicon traffic
TrafficCases ==
    { c \in ValidateCases :
        /\ c.input.Definition = <<"#", "ControlCatalog">>
        /\ c.input.ArtifactContent \in {"", "good-ccc.yaml"}
        /\ c.env = "ok"
        /\ c.report = <<"#ControlCatalog.title: incomplete value string">> }

\* ------------------------------------------------------------------ state
VARIABLES
    lexiconCache,      \* var lexiconCache []LexiconEntry
    lexiconCacheTime,  \* var lexiconCacheTime time.Time (0 = zero time)
    now,               \* the wall clock, in hours
    remote,            \* the body the remote source serves at present
    pc,                \* per caller: position in the handler it runs
    fn,                \* per caller: the handler
    refresh,           \* per caller: input.Refresh
    entries,           \* per caller: the local variable entries
    err,               \* per caller: the error returned
    out,               \* per caller: the value returned
    fetchLog,          \* per caller: outcomes of the fetches of this call
    input,             \* per caller: the InputValidateGemaraArtifact
    cueEnv,            \* per caller: the registry and loader it met
    cueCalls,          \* per caller: registry, loader and engine calls made
    reqURI,            \* per caller: req.Params.URI of the resource read
    last,              \* the call the test has observed before this one
    regs,              \* per caller: values read and not yet stored or used
    held,              \* history, per noted caller: the slice headers
                       \*          lexiconCache has held since the caller's
                       \*          non-refresh call began
    entriesBy,         \* history: the caller who wrote lexiconCache and has
                       \*          not yet written lexiconCacheTime (0: none)
    paired,            \* history: lexiconCache and lexiconCacheTime were
                       \*          written by the same fetch
    snap,              \* history: the cache when this call began, while alone
    disturbed,         \* history: something else happened during this call
    prev               \* history: entries of the caller's call just before

vars == <<lexiconCache, lexiconCacheTime, now, remote, pc, fn, refresh,
          entries, err, out, fetchLog, input, cueEnv, cueCalls, reqURI,
          last, regs, entriesBy, paired, snap, disturbed, prev, held>>

validateVars == <<input, cueEnv, cueCalls>>

cacheVars == <<lexiconCache, lexiconCacheTime>>

NoOut == [type |-> "none"]
NoInput == [ArtifactContent |-> "", Definition |-> <<>>]
NoSnap == [valid |-> FALSE, cache |-> NilSlice, time |-> 0]
NoPrev == [valid |-> FALSE, entries |-> NilSlice]
NoLast == [valid |-> FALSE]
NoRegs == [now |-> 0, word |-> "none", hdr |-> NilSlice]

\* time.Since(t) in hours
Since(t) == now - t
\* t.IsZero()
IsZero(t) == t = 0

\* the state after package initialisation, but for the history held
InitState ==
    /\ lexiconCache = NilSlice
    /\ lexiconCacheTime = 0
    /\ now = 1
    /\ remote \in Bodies
    /\ pc = [p \in Callers |-> "idle"]
    /\ fn = [p \in Callers |-> "none"]
    /\ refresh = [p \in Callers |-> FALSE]
    /\ entries = [p \in Callers |-> NilSlice]
    /\ err = [p \in Callers |-> NoErr]
    /\ out = [p \in Callers |-> NoOut]
    /\ fetchLog = [p \in Callers |-> <<>>]
    /\ input = [p \in Callers |-> NoInput]
    /\ cueEnv = [p \in Callers |-> "none"]
    /\ cueCalls = [p \in Callers |-> <<>>]
    /\ reqURI = [p \in Callers |-> ""]
    /\ last = NoLast
    /\ regs = [p \in Callers |-> NoRegs]
    /\ entriesBy = 0
    /\ paired = TRUE
    /\ snap = [p \in Callers |-> NoSnap]
    /\ disturbed = [p \in Callers |-> FALSE]
    /\ prev = [p \in Callers |-> NoPrev]

\* no caller is noted
Init ==
    /\ InitState
    /\ held = [p \in {} |-> {}]

\* History bookkeeping of a step taken by actor a (0: the clock or the
\* remote source): every other caller is disturbed.
History(a, mySnap, myDisturbed, myPrev) ==
    /\ snap' = [q \in Callers |-> IF q = a THEN mySnap ELSE NoSnap]
    /\ disturbed' = [q \in Callers |->
                        IF q = a THEN myDisturbed ELSE pc[q] # "idle"]
    /\ prev' = [q \in Callers |-> IF q = a THEN myPrev ELSE NoPrev]

Step(p) == History(p, snap[p], disturbed[p], prev[p])

\* history: a call begins; a non-refresh lexicon call notes the header the
\* cache holds
Begin(p, noted) ==
    held' = [q \in DOMAIN held |->
                IF q # p THEN held[q]
                ELSE IF noted THEN {lexiconCache} ELSE {}]

\* history: the cache holds header c from now on; every noting call that
\* has not yet read the cache for its result notes it
Holds(c) ==
    held' = [q \in DOMAIN held |->
                IF held[q] # {} /\ pc[q] \notin {"gl_wascached", "done"}
                THEN held[q] \cup {c} ELSE held[q]]

Goto(p, l) == pc' = [pc EXCEPT ![p] = l]

\* ------------------------------------------------------------ environment
Tick ==
    /\ now + TickHours <= MaxTime
    /\ now' = now + TickHours
    /\ History(0, NoSnap, FALSE, NoPrev)
    /\ UNCHANGED <<lexiconCache, lexiconCacheTime, remote, pc, fn, refresh,
                   entries, err, out, fetchLog, entriesBy, paired, validateVars, reqURI,
                   last, regs, held>>

RemoteChange ==
    /\ \E b \in Bodies \ {remote} : remote' = b
    /\ History(0, NoSnap, FALSE, NoPrev)
    /\ UNCHANGED <<lexiconCache, lexiconCacheTime, now, pc, fn, refresh,
                   entries, err, out, fetchLog, entriesBy, paired, validateVars, reqURI,
                   last, regs, held>>

\* ------------------------------------------------------- a request arrives
\* CallGetLexicon, but input.Refresh is not looked at
CallGetLexicon_IgnoresRefresh(p) ==
    /\ pc[p] = "idle"
    /\ \E r \in BOOLEAN :
         /\ refresh' = [refresh EXCEPT ![p] = r]
         /\ Goto(p, "hr_check_len")
    /\ reqURI' = [reqURI EXCEPT ![p] = lexiconResourceURI]
    /\ Begin(p, TRUE)
    /\ fn' = [fn EXCEPT ![p] = "GetLexicon"]
    /\ History(p, [valid |-> TRUE, cache |-> lexiconCache, time |-> lexiconCacheTime],
               FALSE, prev[p])
    /\ UNCHANGED <<lexiconCache, lexiconCacheTime, now, remote, entries, err,
                   out, fetchLog, entriesBy, paired, validateVars, last, regs>>

\* lexicon.go:63-65 and 84-90: GetLexicon is called with input.Refresh
CallGetLexicon(p) ==
    /\ pc[p] = "idle"
    /\ \E r \in BOOLEAN :
         /\ refresh' = [refresh EXCEPT ![p] = r]
         /\ Goto(p, IF r THEN "gl_fetch" ELSE "hr_check_len")
         /\ reqURI' = [reqURI EXCEPT ![p] = IF r THEN "" ELSE lexiconResourceURI]
         /\ Begin(p, ~r)
    /\ fn' = [fn EXCEPT ![p] = "GetLexicon"]
    /\ History(p, [valid |-> TRUE, cache |-> lexiconCache, time |-> lexiconCacheTime],
               FALSE, prev[p])
    /\ UNCHANGED <<lexiconCache, lexiconCacheTime, now, remote, entries, err,
                   out, fetchLog, entriesBy, paired, validateVars, last, regs>>

\* the URIs a resource read can name: none, and the two registered ones
RequestURIs == {"", LexiconResourceURI, LexiconResourceURIAlias}

\* the URI of the resource reads run next to the rest of the traffic
TrafficURIs == {LexiconResourceURIAlias}

\* resource.go:39: HandleLexiconResource is called with req.Params.URI
CallHandleLexiconResource(p, uris) ==
    /\ pc[p] = "idle"
    /\ \E uri \in uris : reqURI' = [reqURI EXCEPT ![p] = uri]
    /\ refresh' = [refresh EXCEPT ![p] = FALSE]
    /\ Goto(p, "hr_check_len")
    /\ fn' = [fn EXCEPT ![p] = "HandleLexiconResource"]
    /\ Begin(p, TRUE)
    /\ History(p, [valid |-> TRUE, cache |-> lexiconCache, time |-> lexiconCacheTime],
               FALSE, prev[p])
    /\ UNCHANGED <<lexiconCache, lexiconCacheTime, now, remote, entries, err,
                   out, fetchLog, entriesBy, paired, validateVars, last, regs>>

\* ------------------------------------------------- the write of the cache
\* lexiconCache = entries, first store: the length word
WriteCache(p, at, next) ==
    /\ pc[p] = at
    /\ lexiconCache' = [lexiconCache EXCEPT !.len = entries[p].len]
    /\ entriesBy' = p
    /\ paired' = FALSE
    /\ Holds(lexiconCache')
    /\ Goto(p, next)
    /\ Step(p)
    /\ UNCHANGED <<lexiconCacheTime, now, remote, fn, refresh, entries, err,
                   out, fetchLog, validateVars, reqURI, last, regs>>

\* lexiconCache = entries, second store: the data pointer
WriteCachePtr(p, at, next) ==
    /\ pc[p] = at
    /\ lexiconCache' = [lexiconCache EXCEPT !.nil = entries[p].nil,
                                            !.items = entries[p].items]
    /\ Holds(lexiconCache')
    /\ Goto(p, next)
    /\ Step(p)
    /\ UNCHANGED <<lexiconCacheTime, now, remote, fn, refresh, entries, err,
                   out, fetchLog, entriesBy, paired, validateVars, reqURI, last,
                   regs>>

\* time.Now(): the clock is read before its value is stored
ReadClock(p, at, next) ==
    /\ pc[p] = at
    /\ regs' = [regs EXCEPT ![p].now = now]
    /\ Goto(p, next)
    /\ Step(p)
    /\ UNCHANGED <<lexiconCache, lexiconCacheTime, now, remote, fn, refresh, entries,
                   err, out, fetchLog, entriesBy, paired, validateVars, reqURI, last,
                   held>>

\* history of the write of lexiconCacheTime by p
PairUp(p) ==
    /\ paired' = (entriesBy = p /\ lexiconCache = entries[p])
    /\ entriesBy' = IF entriesBy = p THEN 0 ELSE entriesBy

\* Fetch, but the first failed fetch of a call is tried again
Fetch_RetriesOnce(p, at, okNext, wrap) ==
    /\ pc[p] = at
    /\ \E resp \in Responses(remote) :
         LET r == fetchLexiconFromURL(resp) IN
         /\ fetchLog' = [fetchLog EXCEPT
                            ![p] = Append(@, IF r.err = NoErr THEN "ok" ELSE "failed")]
         /\ IF r.err # NoErr /\ fetchLog[p] = <<>>
            THEN /\ err' = err
                 /\ entries' = entries
                 /\ Goto(p, at)
            ELSE IF r.err # NoErr
            THEN /\ err' = [err EXCEPT ![p] = wrap \o r.err]
                 /\ entries' = [entries EXCEPT ![p] = NilSlice]
                 /\ Goto(p, "done")
            ELSE /\ err' = err
                 /\ entries' = [entries EXCEPT ![p] = r.entries]
                 /\ Goto(p, okNext)
    /\ Step(p)
    /\ UNCHANGED <<lexiconCache, lexiconCacheTime, now, remote, fn, refresh,
                   out, entriesBy, paired, validateVars, reqURI, last, regs,
                   held>>

\* Fetch, but a failed fetch invalidates the cache
Fetch_InvalidatesOnError(p, at, okNext, wrap) ==
    /\ pc[p] = at
    /\ \E resp \in Responses(remote) :
         LET r == fetchLexiconFromURL(resp) IN
         /\ fetchLog' = [fetchLog EXCEPT
                            ![p] = Append(@, IF r.err = NoErr THEN "ok" ELSE "failed")]
         /\ IF r.err # NoErr
            THEN /\ err' = [err EXCEPT ![p] = wrap \o r.err]
                 /\ entries' = [entries EXCEPT ![p] = NilSlice]
                 /\ lexiconCache' = NilSlice
                 /\ lexiconCacheTime' = 0
                 /\ Goto(p, "done")
            ELSE /\ err' = err
                 /\ entries' = [entries EXCEPT ![p] = r.entries]
                 /\ UNCHANGED <<lexiconCache, lexiconCacheTime>>
                 /\ Goto(p, okNext)
    /\ Step(p)
    /\ UNCHANGED <<now, remote, fn, refresh, out, entriesBy, paired, validateVars, reqURI,
                   last, regs, held>>

\* a fetch at one of the call sites of fetchLexiconFromURL
Fetch(p, at, okNext, wrap) ==
    /\ pc[p] = at
    /\ \E resp \in Responses(remote) :
         LET r == fetchLexiconFromURL(resp) IN
         /\ fetchLog' = [fetchLog EXCEPT
                            ![p] = Append(@, IF r.err = NoErr THEN "ok" ELSE "failed")]
         /\ IF r.err # NoErr
            THEN /\ err' = [err EXCEPT ![p] = wrap \o r.err]
                 /\ entries' = [entries EXCEPT ![p] = NilSlice]
                 /\ Goto(p, "done")
            ELSE /\ err' = err
                 /\ entries' = [entries EXCEPT ![p] = r.entries]
                 /\ Goto(p, okNext)
    /\ Step(p)
    /\ UNCHANGED <<lexiconCache, lexiconCacheTime, now, remote, fn, refresh,
                   out, entriesBy, paired, validateVars, reqURI, last, regs,
                   held>>

\* ------------------------------------------------------------- GetLexicon
\* lexicon.go:66-69
GLFetch(p) == Fetch(p, "gl_fetch", "gl_wcache", <<>>)
\* lexicon.go:72
GLWriteCache(p) == WriteCache(p, "gl_wcache", "gl_wptr")
GLWriteCachePtr(p) == WriteCachePtr(p, "gl_wptr", "gl_now")
\* lexicon.go:73, right-hand side
GLNow(p) == ReadClock(p, "gl_now", "gl_wtime")
\* lexicon.go:73-80
GLWriteTime(p) ==
    /\ pc[p] = "gl_wtime"
    /\ lexiconCacheTime' = regs[p].now
    /\ regs' = [regs EXCEPT ![p] = NoRegs]
    /\ PairUp(p)
    /\ out' = [out EXCEPT ![p] = [type |-> "OutputGetLexicon", entries |-> entries[p],
                                  source |-> lexiconURL, cached |-> FALSE]]
    /\ Goto(p, "done")
    /\ Step(p)
    /\ UNCHANGED <<lexiconCache, now, remote, fn, refresh, entries, err,
                   fetchLog, validateVars, reqURI, last, held>>

\* lexicon.go:105-113
GLWasCached(p) ==
    /\ pc[p] = "gl_wascached"
    /\ LET wasCached == ~IsZero(lexiconCacheTime)
                          /\ Since(lexiconCacheTime) < lexiconCacheTTL IN
       out' = [out EXCEPT ![p] = [type |-> "OutputGetLexicon", entries |-> entries[p],
                                  source |-> lexiconURL, cached |-> wasCached]]
    /\ entries' = [entries EXCEPT ![p] = NilSlice]
    /\ Goto(p, "done")
    /\ Step(p)
    /\ UNCHANGED <<lexiconCache, lexiconCacheTime, now, remote, fn, refresh,
                   err, fetchLog, entriesBy, paired, validateVars, reqURI, last,
                   regs, held>>

\* ------------------------------------------------------ getLexiconWithURL
\* lexicon.go:151: getLexiconWithURL is called with input.Refresh
CallGetLexiconWithURL(p) ==
    /\ pc[p] = "idle"
    /\ \E r \in BOOLEAN : refresh' = [refresh EXCEPT ![p] = r]
    /\ Goto(p, "gw_check")
    /\ fn' = [fn EXCEPT ![p] = "getLexiconWithURL"]
    /\ History(p, [valid |-> TRUE, cache |-> lexiconCache, time |-> lexiconCacheTime],
               FALSE, prev[p])
    /\ UNCHANGED <<lexiconCache, lexiconCacheTime, now, remote, entries, err,
                   out, fetchLog, entriesBy, paired, validateVars, reqURI, last,
                   regs, held>>

\* lexicon.go:152
GWCheck(p) ==
    /\ pc[p] = "gw_check"
    /\ Goto(p, IF ~refresh[p] /\ ~IsZero(lexiconCacheTime)
                    /\ Since(lexiconCacheTime) < lexiconCacheTTL
               THEN "gw_serve" ELSE "gw_fetch")
    /\ Step(p)
    /\ UNCHANGED <<lexiconCache, lexiconCacheTime, now, remote, fn, refresh,
                   entries, err, out, fetchLog, entriesBy, paired, validateVars,
                   reqURI, last, regs, held>>

\* lexicon.go:153-158
GWServe(p) ==
    /\ pc[p] = "gw_serve"
    /\ out' = [out EXCEPT ![p] = [type |-> "OutputGetLexicon", entries |-> lexiconCache,
                                  source |-> "server.URL", cached |-> TRUE]]
    /\ Goto(p, "done")
    /\ Step(p)
    /\ UNCHANGED <<lexiconCache, lexiconCacheTime, now, remote, fn, refresh,
                   entries, err, fetchLog, entriesBy, paired, validateVars,
                   reqURI, last, regs, held>>

\* lexicon.go:161-164
GWFetch(p) == Fetch(p, "gw_fetch", "gw_wcache", <<>>)
\* lexicon.go:167
GWWriteCache(p) == WriteCache(p, "gw_wcache", "gw_wptr")
GWWriteCachePtr(p) == WriteCachePtr(p, "gw_wptr", "gw_now")
\* lexicon.go:168, right-hand side
GWNow(p) == ReadClock(p, "gw_now", "gw_wtime")
\* lexicon.go:168-176
GWWriteTime(p) ==
    /\ pc[p] = "gw_wtime"
    /\ lexiconCacheTime' = regs[p].now
    /\ regs' = [regs EXCEPT ![p] = NoRegs]
    /\ PairUp(p)
    /\ out' = [out EXCEPT ![p] = [type |-> "OutputGetLexicon", entries |-> entries[p],
                                  source |-> "server.URL", cached |-> FALSE]]
    /\ Goto(p, "done")
    /\ Step(p)
    /\ UNCHANGED <<lexiconCache, now, remote, fn, refresh, entries, err,
                   fetchLog, validateVars, reqURI, last, held>>

\* -------------------------------------------------- HandleLexiconResource
\* HRCheckLen, but the check waits while another call is writing the cache
HRCheckLen_WaitsForWriter(p) ==
    /\ pc[p] = "hr_check_len"
    /\ \A q \in Callers \ {p} : pc[q] \notin {"gl_wptr", "gl_now", "gl_wtime", "hr_wptr", "hr_now", "hr_wtime"}
    /\ Goto(p, IF len(lexiconCache) = 0 THEN "hr_fetch" ELSE "hr_check_time")
    /\ Step(p)
    /\ UNCHANGED <<lexiconCache, lexiconCacheTime, now, remote, fn, refresh,
                   entries, err, out, fetchLog, entriesBy, paired, validateVars, reqURI,
                   last, regs, held>>

\* resource.go:41, first operand
HRCheckLen(p) ==
    /\ pc[p] = "hr_check_len"
    /\ Goto(p, IF len(lexiconCache) = 0 THEN "hr_fetch" ELSE "hr_check_time")
    /\ Step(p)
    /\ UNCHANGED <<lexiconCache, lexiconCacheTime, now, remote, fn, refresh,
                   entries, err, out, fetchLog, entriesBy, paired, validateVars, reqURI,
                   last, regs, held>>

\* HRCheckTime, but a stale timestamp is reset before the fetch
HRCheckTime_InvalidatesStale(p) ==
    /\ pc[p] = "hr_check_time"
    /\ IF IsZero(lexiconCacheTime) \/ Since(lexiconCacheTime) >= lexiconCacheTTL
       THEN /\ lexiconCacheTime' = 0
            /\ Goto(p, "hr_fetch")
       ELSE /\ lexiconCacheTime' = lexiconCacheTime
            /\ Goto(p, "hr_serve")
    /\ Step(p)
    /\ UNCHANGED <<lexiconCache, now, remote, fn, refresh,
                   entries, err, out, fetchLog, entriesBy, paired, validateVars, reqURI,
                   last, regs, held>>

\* resource.go:41, second and third operand
HRCheckTime(p) ==
    /\ pc[p] = "hr_check_time"
    /\ Goto(p, IF IsZero(lexiconCacheTime) \/ Since(lexiconCacheTime) >= lexiconCacheTTL
               THEN "hr_fetch" ELSE "hr_serve")
    /\ Step(p)
    /\ UNCHANGED <<lexiconCache, lexiconCacheTime, now, remote, fn, refresh,
                   entries, err, out, fetchLog, entriesBy, paired, validateVars, reqURI,
                   last, regs, held>>

\* HRFetch, but a failed fetch falls back to entries still in the cache
HRFetch_ServesStale(p) ==
    /\ pc[p] = "hr_fetch"
    /\ \E resp \in Responses(remote) :
         LET r == fetchLexiconFromURL(resp) IN
         /\ fetchLog' = [fetchLog EXCEPT
                            ![p] = Append(@, IF r.err = NoErr THEN "ok" ELSE "failed")]
         /\ IF r.err # NoErr /\ len(lexiconCache) = 0
            THEN /\ err' = [err EXCEPT ![p] = <<"failed to fetch lexicon">> \o r.err]
                 /\ entries' = [entries EXCEPT ![p] = NilSlice]
                 /\ Goto(p, "done")
            ELSE IF r.err # NoErr
            THEN /\ err' = err
                 /\ entries' = [entries EXCEPT ![p] = NilSlice]
                 /\ Goto(p, "hr_serve")
            ELSE /\ err' = err
                 /\ entries' = [entries EXCEPT ![p] = r.entries]
                 /\ Goto(p, "hr_wcache")
    /\ Step(p)
    /\ UNCHANGED <<lexiconCache, lexiconCacheTime, now, remote, fn, refresh,
                   out, entriesBy, paired, validateVars, reqURI, last, regs,
                   held>>

\* HRFetch, but a caller waits while another call holds fetched entries
HRFetch_Coalesces(p) ==
    /\ \A q \in Callers \ {p} :
          pc[q] \notin {"gl_wcache", "gl_wptr", "gl_now", "gl_wtime",
                         "hr_wcache", "hr_wptr", "hr_now", "hr_wtime"}
    /\ Fetch(p, "hr_fetch", "hr_wcache",
             IF fn[p] = "GetLexicon"
             THEN <<"failed to read lexicon resource", "failed to fetch lexicon">>
             ELSE <<"failed to fetch lexicon">>)

\* resource.go:42-45, and lexicon.go:91-93 when GetLexicon is the caller
HRFetch(p) ==
    Fetch(p, "hr_fetch", "hr_wcache",
          IF fn[p] = "GetLexicon"
          THEN <<"failed to read lexicon resource", "failed to fetch lexicon">>
          ELSE <<"failed to fetch lexicon">>)

\* resource.go:48
HRWriteCache(p) == WriteCache(p, "hr_wcache", "hr_wptr")
HRWriteCachePtr(p) == WriteCachePtr(p, "hr_wptr", "hr_now")
\* resource.go:49, right-hand side
HRNow(p) == ReadClock(p, "hr_now", "hr_wtime")

\* resource.go:49
HRWriteTime(p) ==
    /\ pc[p] = "hr_wtime"
    /\ lexiconCacheTime' = regs[p].now
    /\ regs' = [regs EXCEPT ![p] = NoRegs]
    /\ PairUp(p)
    /\ Goto(p, "hr_serve")
    /\ Step(p)
    /\ UNCHANGED <<lexiconCache, now, remote, fn, refresh, entries, err, out,
                   fetchLog, validateVars, reqURI, last, held>>

\* ReadResourceResult, but the content is always named by the canonical URI
ReadResourceResult_AlwaysCanonical(cache, uri) ==
    [type |-> "ReadResourceResult",
     contents |-> << [uri |-> LexiconResourceURI,
                      mimeType |-> "application/json",
                      text |-> jsonMarshal(cache)] >>]

\* the result of resource.go:53-72 for the requested URI
ReadResourceResult(cache, uri) ==
    [type |-> "ReadResourceResult",
     contents |-> << [uri |-> IF uri = "" THEN LexiconResourceURI ELSE uri,
                      mimeType |-> "application/json",
                      text |-> jsonMarshal(cache)] >>]

\* resource.go:53, the argument of json.Marshal: the first load of the
\* header of lexiconCache, of its length word or of its data pointer
HRLoad(p) ==
    /\ pc[p] = "hr_serve"
    /\ \E w \in {"len", "ptr"} :
         regs' = [regs EXCEPT
                     ![p].word = w,
                     ![p].hdr = IF w = "len"
                                THEN [NilSlice EXCEPT !.len = lexiconCache.len]
                                ELSE [lexiconCache EXCEPT !.len = 0]]
    /\ Goto(p, "hr_marshal")
    /\ Step(p)
    /\ UNCHANGED <<lexiconCache, lexiconCacheTime, now, remote, fn, refresh, entries,
                   err, out, fetchLog, entriesBy, paired, validateVars, reqURI, last,
                   held>>

\* the header json.Marshal receives: the word loaded first and the word
\* loaded now
Loaded(p) ==
    IF regs[p].word = "len"
    THEN [lexiconCache EXCEPT !.len = regs[p].hdr.len]
    ELSE [regs[p].hdr EXCEPT !.len = lexiconCache.len]

\* resource.go:53-72; for GetLexicon also lexicon.go:95-102
HRServe(p) ==
    /\ pc[p] = "hr_marshal"
    /\ IF fn[p] = "GetLexicon"
       THEN LET result == ReadResourceResult(Loaded(p), reqURI[p])
                u == IF Len(result.contents) = 0
                     THEN [entries |-> NilSlice, err |-> <<"resource returned no contents">>]
                     ELSE jsonUnmarshal(result.contents[1].text) IN
            IF u.err # NoErr
            THEN /\ err' = [err EXCEPT ![p] = Errorf("failed to parse lexicon JSON", u.err)]
                 /\ entries' = entries
                 /\ out' = out
                 /\ Goto(p, "done")
            ELSE /\ entries' = [entries EXCEPT ![p] = u.entries]
                 /\ err' = err
                 /\ out' = out
                 /\ Goto(p, "gl_wascached")
       ELSE /\ out' = [out EXCEPT ![p] = ReadResourceResult(Loaded(p), reqURI[p])]
            /\ entries' = [entries EXCEPT ![p] = NilSlice]
            /\ err' = err
            /\ Goto(p, "done")
    /\ regs' = [regs EXCEPT ![p] = NoRegs]
    /\ Step(p)
    /\ UNCHANGED <<lexiconCache, lexiconCacheTime, now, remote, fn, refresh,
                   fetchLog, entriesBy, paired, validateVars, reqURI, last,
                   held>>

\* ------------------------------------------- ValidateGemaraArtifact, called
\* resource.go:130-234, for one of the cases
CallValidateGemaraArtifact(p, cases) ==
    /\ pc[p] = "idle"
    /\ \E c \in cases :
         LET r == ValidateGemaraArtifact(c.input, c.env, c.report) IN
         /\ input' = [input EXCEPT ![p] = c.input]
         /\ cueEnv' = [cueEnv EXCEPT ![p] = c.env]
         /\ cueCalls' = [cueCalls EXCEPT ![p] = r.calls]
         /\ err' = [err EXCEPT ![p] = r.err]
         /\ out' = [out EXCEPT ![p] = r.out]
    /\ fn' = [fn EXCEPT ![p] = "ValidateGemaraArtifact"]
    /\ Goto(p, "done")
    /\ History(p, [valid |-> TRUE, cache |-> lexiconCache, time |-> lexiconCacheTime],
               FALSE, prev[p])
    /\ UNCHANGED <<lexiconCache, lexiconCacheTime, now, remote, refresh,
                   entries, fetchLog, entriesBy, paired, reqURI, last, regs,
                   held>>

\* ------------------------------------------------------ the handler returns
Return(p) ==
    /\ pc[p] = "done"
    /\ Goto(p, "idle")
    /\ fn' = [fn EXCEPT ![p] = "none"]
    /\ refresh' = [refresh EXCEPT ![p] = FALSE]
    /\ entries' = [entries EXCEPT ![p] = NilSlice]
    /\ err' = [err EXCEPT ![p] = NoErr]
    /\ out' = [out EXCEPT ![p] = NoOut]
    /\ fetchLog' = [fetchLog EXCEPT ![p] = <<>>]
    /\ History(p, NoSnap, FALSE,
               IF fn[p] = "GetLexicon" /\ ~refresh[p] /\ err[p] = NoErr /\ ~disturbed[p]
               THEN [valid |-> TRUE, entries |-> out[p].entries]
               ELSE NoPrev)
    /\ input' = [input EXCEPT ![p] = NoInput]
    /\ cueEnv' = [cueEnv EXCEPT ![p] = "none"]
    /\ cueCalls' = [cueCalls EXCEPT ![p] = <<>>]
    /\ reqURI' = [reqURI EXCEPT ![p] = ""]
    /\ held' = [q \in DOMAIN held |-> IF q = p THEN {} ELSE held[q]]
    /\ UNCHANGED <<lexiconCache, lexiconCacheTime, now, remote, entriesBy, paired, last,
                   regs>>

Next ==
    \/ Tick
    \/ RemoteChange
    \/ \E p \in Callers :
         \/ CallGetLexicon(p)
         \/ CallHandleLexiconResource(p, TrafficURIs)
         \/ GLFetch(p)
         \/ GLWriteCache(p)
         \/ GLWriteCachePtr(p)
         \/ GLNow(p)
         \/ GLWriteTime(p)
         \/ GLWasCached(p)
         \/ HRCheckLen(p)
         \/ HRCheckTime(p)
         \/ HRFetch(p)
         \/ HRWriteCache(p)
         \/ HRWriteCachePtr(p)
         \/ HRNow(p)
         \/ HRWriteTime(p)
         \/ HRLoad(p)
         \/ HRServe(p)
         \/ CallValidateGemaraArtifact(p, TrafficCases)
         \/ Return(p)

Spec == Init /\ [][Next]_vars

\* ------------------------------------------------------------- scheduling
\* the steps of a handler between its call and its return
Proceed(p) ==
    \/ GLFetch(p)
    \/ GLWriteCache(p)
    \/ GLWriteCachePtr(p)
    \/ GLNow(p)
    \/ GLWriteTime(p)
    \/ GLWasCached(p)
    \/ HRCheckLen(p)
    \/ HRCheckTime(p)
    \/ HRFetch(p)
    \/ HRWriteCache(p)
    \/ HRWriteCachePtr(p)
    \/ HRNow(p)
    \/ HRWriteTime(p)
    \/ HRLoad(p)
    \/ HRServe(p)

\* The Go scheduler runs every runnable goroutine, and the HTTP client of
\* fetchLexiconFromURL gives up after httpTimeout: a handler that can take
\* its next step takes it.
LiveNext ==
    \/ Tick
    \/ \E p \in Callers :
         \/ CallGetLexicon(p)
         \/ CallHandleLexiconResource(p, TrafficURIs)
         \/ Proceed(p)
         \/ Return(p)

LiveSpec == Init /\ [][LiveNext]_vars /\ \A p \in Callers : WF_vars(Proceed(p))

\* ------------------------------------------------ the headers a call met
\* The lexicon calls of two concurrent callers, with the history of the
\* headers the cache held during the calls of one of them.  The clock
\* stands still: the first call and every call that meets an empty list
\* fetch, every other call is served from the cache.
Noted == {1}

HeldInit ==
    /\ InitState
    /\ held = [p \in Noted |-> {}]

HeldNext ==
    \/ RemoteChange
    \/ \E p \in Callers :
         \/ CallGetLexicon(p)
         \/ CallHandleLexiconResource(p, TrafficURIs)
         \/ Proceed(p)
         \/ Return(p)

HeldSpec == HeldInit /\ [][HeldNext]_vars

\* ------------------------------------------------- resource reads alone
\* Concurrent reads of the lexicon resource under each of its URIs.
ResourceNext ==
    \/ Tick
    \/ RemoteChange
    \/ \E p \in Callers :
         \/ CallHandleLexiconResource(p, RequestURIs)
         \/ HRCheckLen(p)
         \/ HRCheckTime(p)
         \/ HRFetch(p)
         \/ HRWriteCache(p)
         \/ HRWriteCachePtr(p)
         \/ HRNow(p)
         \/ HRWriteTime(p)
         \/ HRLoad(p)
         \/ HRServe(p)
         \/ Return(p)

ResourceSpec == Init /\ [][ResourceNext]_vars

\* ------------------------------------------------------- the test harness
\* One goroutine, as in TestGetLexicon, resets the cache and calls
\* GetLexicon and getLexiconWithURL one after the other, keeping what a
\* call returned.
TestCallers == {1}

\* lexicon_test.go:110-111
TestReset ==
    /\ \A p \in Callers : pc[p] = "idle"
    /\ lexiconCache # NilSlice \/ lexiconCacheTime # 0
    /\ lexiconCache' = NilSlice
    /\ lexiconCacheTime' = 0
    /\ entriesBy' = 0
    /\ paired' = TRUE
    /\ History(0, NoSnap, FALSE, NoPrev)
    /\ UNCHANGED <<now, remote, pc, fn, refresh, entries, err, out, fetchLog,
                   validateVars, reqURI, last, regs, held>>

\* what the test sees of a call that ran alone: where it began, whether it
\* fetched, what it returned and what it left in the cache
Summary(p) ==
    [valid |-> TRUE, fn |-> fn[p], refresh |-> refresh[p],
     cache |-> snap[p].cache, time |-> snap[p].time, now |-> now, remote |-> remote,
     fetched |-> fetchLog[p], failed |-> err[p] # NoErr,
     entries |-> IF err[p] = NoErr THEN out[p].entries ELSE NilSlice,
     cached |-> IF err[p] = NoErr THEN out[p].cached ELSE FALSE,
     endCache |-> lexiconCache, endTime |-> lexiconCacheTime]

\* lexicon_test.go:121-147: the test keeps the output and error of the call
TestObserve(p) ==
    /\ pc[p] = "done"
    /\ fn[p] \in {"GetLexicon", "getLexiconWithURL"}
    /\ snap[p].valid
    /\ last # Summary(p)
    /\ last' = Summary(p)
    /\ UNCHANGED <<lexiconCache, lexiconCacheTime, now, remote, pc, fn, refresh,
                   entries, err, out, fetchLog, validateVars, reqURI, entriesBy,
                   paired, snap, disturbed, prev, regs, held>>

TestNext ==
    \/ Tick
    \/ RemoteChange
    \/ TestReset
    \/ \E p \in TestCallers :
         \/ CallGetLexicon(p)
         \/ CallGetLexiconWithURL(p)
         \/ GWCheck(p)
         \/ GWServe(p)
         \/ GWFetch(p)
         \/ GWWriteCache(p)
         \/ GWWriteCachePtr(p)
         \/ GWNow(p)
         \/ GWWriteTime(p)
         \/ Proceed(p)
         \/ TestObserve(p)
         \/ Return(p)

TestSpec == Init /\ [][TestNext]_vars

\* ------------------------------------------------------ the validator alone
\* The validator over all its cases, beside a cache in a state the lexicon
\* calls leave it in.
ValidatorInit ==
    /\ \E c \in { <<NilSlice, 0>>, <<MkSlice(<<"Assessment", "Control">>), 1>> } :
         /\ lexiconCache = c[1]
         /\ lexiconCacheTime = c[2]
    /\ now = 1
    /\ remote = <<"Assessment", "Control">>
    /\ pc = [p \in Callers |-> "idle"]
    /\ fn = [p \in Callers |-> "none"]
    /\ refresh = [p \in Callers |-> FALSE]
    /\ entries = [p \in Callers |-> NilSlice]
    /\ err = [p \in Callers |-> NoErr]
    /\ out = [p \in Callers |-> NoOut]
    /\ fetchLog = [p \in Callers |-> <<>>]
    /\ input = [p \in Callers |-> NoInput]
    /\ cueEnv = [p \in Callers |-> "none"]
    /\ cueCalls = [p \in Callers |-> <<>>]
    /\ reqURI = [p \in Callers |-> ""]
    /\ last = NoLast
    /\ regs = [p \in Callers |-> NoRegs]
    /\ held = [p \in {} |-> {}]
    /\ entriesBy = 0
    /\ paired = TRUE
    /\ snap = [p \in Callers |-> NoSnap]
    /\ disturbed = [p \in Callers |-> FALSE]
    /\ prev = [p \in Callers |-> NoPrev]

ValidatorNext ==
    \E p \in Callers :
        \/ CallValidateGemaraArtifact(p, ValidateCases)
        \/ Return(p)

ValidatorSpec == ValidatorInit /\ [][ValidatorNext]_vars

\* ================================================================ claims
Done(p) == pc[p] = "done"
Fetched(p) == fetchLog[p] # <<>>
FetchFailed(p) == fetchLog[p] # <<>> /\ fetchLog[p][Len(fetchLog[p])] = "failed"
IsLexiconCall(p) == fn[p] \in {"GetLexicon", "HandleLexiconResource"}
IsDirectQuery(p, r) == fn[p] = "GetLexicon" /\ refresh[p] = r
IsResourceRead(p) == fn[p] = "HandleLexiconResource"
Moves(p) == pc'[p] # pc[p]

\* the freshness predicate of the cache at this instant
Fresh == ~IsZero(lexiconCacheTime) /\ Since(lexiconCacheTime) < lexiconCacheTTL

\* positions whose next step reads the cache, and positions whose next step
\* writes it; after its first store and before its last a caller is in the
\* middle of a write
ObservePcs == {"hr_check_len", "hr_check_time", "hr_serve", "hr_marshal",
               "gl_wascached"}
WritePcs == {"gl_wcache", "gl_wptr", "gl_wtime", "hr_wcache", "hr_wptr", "hr_wtime"}
MidWritePcs == {"gl_wptr", "gl_now", "gl_wtime", "hr_wptr", "hr_now", "hr_wtime"}

\* C1: entries and fetchedAt change as one atomic unit: no freshness check
\* or read observes entries of one fetch paired with the timestamp of
\* another (or with the absent timestamp), and no step that reads or writes
\* the cache is taken while another caller is in the middle of a write.
C1_AtomicCacheUpdate ==
    [][\A q \in Callers :
          /\ (Moves(q) /\ pc[q] \in ObservePcs) => paired
          /\ (Moves(q) /\ pc[q] \in ObservePcs \cup WritePcs)
                => \A p \in Callers \ {q} : pc[p] \notin MidWritePcs]_vars

\* C2: a lexicon call whose fetch fails ends at once with an error and no
\* output, the failing step leaves entries and timestamp as they are, and
\* when nothing else ran during the call the cache is what it was when the
\* call began.
C2_FailurePreservesState ==
    /\ [](\A p \in Callers :
            (IsLexiconCall(p) /\ FetchFailed(p))
               => /\ Done(p)
                  /\ err[p] # NoErr
                  /\ out[p] = NoOut
                  /\ snap[p].valid => /\ lexiconCache = snap[p].cache
                                      /\ lexiconCacheTime = snap[p].time)
    /\ [][\A p \in Callers :
            (Moves(p) /\ FetchFailed(p)') => UNCHANGED cacheVars]_vars

\* a failed fetch, alone, on a stale cache that still holds two entries
C2_Witness ==
    \E p \in Callers :
        /\ IsLexiconCall(p) /\ FetchFailed(p) /\ Done(p) /\ snap[p].valid
        /\ len(lexiconCache) = 2
        /\ ~IsZero(lexiconCacheTime) /\ ~Fresh

\* C3: a direct query with refresh=false reports cached=false exactly when
\* the call fetched.
C3_CachedIffNoFetch ==
    \A p \in Callers :
        (Done(p) /\ IsDirectQuery(p, FALSE) /\ err[p] = NoErr)
           => (out[p].cached <=> ~Fetched(p))
\* C4: a direct query with refresh=true fetches exactly once whatever the
\* cache held; when the fetch succeeds the call writes the fetched entries
\* to the cache and returns them with cached=false, and when nothing else
\* ran during the call the cache then holds the decoded remote document
\* stamped with the present time.
C4_RefreshBypass ==
    /\ [](\A p \in Callers :
            (Done(p) /\ IsDirectQuery(p, TRUE))
               => /\ Len(fetchLog[p]) = 1
                  /\ err[p] = NoErr
                       => /\ fetchLog[p] = <<"ok">>
                          /\ out[p].cached = FALSE
                          /\ out[p].entries = entries[p]
                          /\ snap[p].valid
                               => /\ lexiconCache = out[p].entries
                                  /\ out[p].entries = yamlUnmarshal(remote).entries
                                  /\ lexiconCacheTime = now)
    /\ [][\A p \in Callers :
            /\ (Moves(p) /\ pc[p] = "gl_wcache") => lexiconCache'.len = entries[p].len
            /\ (Moves(p) /\ pc[p] = "gl_wptr")
                  => /\ lexiconCache'.nil = entries[p].nil
                     /\ lexiconCache'.items = entries[p].items]_vars

\* a successful refresh, alone, over a fresh cache that held other entries
C4_Witness ==
    \E p \in Callers :
        /\ Done(p) /\ IsDirectQuery(p, TRUE) /\ err[p] = NoErr /\ snap[p].valid
        /\ ~IsZero(snap[p].time) /\ now - snap[p].time < lexiconCacheTTL
        /\ snap[p].cache # out[p].entries
        /\ len(out[p].entries) = 2

\* C5: of two consecutive successful direct queries with refresh=false by
\* one caller, with nothing else happening from the start of the first to
\* the end of the second (no other caller, no change of the remote source,
\* no advance of the clock), the second returns the entries of the first,
\* reports cached=true and does not fetch.
C5_CacheHitIdempotence ==
    \A p \in Callers :
        (Done(p) /\ IsDirectQuery(p, FALSE) /\ err[p] = NoErr
           /\ ~disturbed[p] /\ prev[p].valid)
           => /\ out[p].entries = prev[p].entries
              /\ out[p].cached
              /\ ~Fetched(p)

\* C6: a stored timestamp t is fresh at t <= now < t+TTL and stale from
\* t+TTL on, and a non-refresh call leaves its check for the fetch only
\* when the cache is not fresh and for the serve only when it is fresh.
C6_FreshnessLaw ==
    /\ [](~IsZero(lexiconCacheTime)
            => /\ lexiconCacheTime <= now
               /\ Fresh <=> now < lexiconCacheTime + lexiconCacheTTL)
    /\ [][\A p \in Callers :
            (Moves(p) /\ pc[p] \in {"hr_check_len", "hr_check_time"})
               => /\ pc'[p] = "hr_fetch" => ~Fresh
                  /\ pc'[p] = "hr_serve" => Fresh]_vars

\* C7: a non-refresh call whose fetch fails ends with the fetch error and
\* returns nothing, whatever the cache still holds.
C7_NoSilentStale ==
    \A p \in Callers :
        (IsLexiconCall(p) /\ ~refresh[p] /\ FetchFailed(p))
           => /\ Done(p)
              /\ "failed to fetch lexicon" \in Range(err[p])
              /\ out[p] = NoOut

\* a resource read has failed to fetch while two stale entries are cached
C7_Witness ==
    \E p \in Callers :
        /\ fn[p] = "HandleLexiconResource" /\ FetchFailed(p) /\ Done(p)
        /\ len(lexiconCache) = 2
        /\ ~IsZero(lexiconCacheTime) /\ Since(lexiconCacheTime) >= lexiconCacheTTL

\* C8: a step changes lexiconCache or lexiconCacheTime only when it is a
\* cache write of a call whose one fetch succeeded; every step of a call
\* that did not fetch, whose fetch failed, or of ValidateGemaraArtifact
\* leaves both unchanged.
C8_OnlySuccessfulFetchMutates ==
    [][/\ (lexiconCache' # lexiconCache \/ lexiconCacheTime' # lexiconCacheTime)
            => \E p \in Callers :
                  /\ Moves(p) /\ pc[p] \in WritePcs
                  /\ fetchLog[p] = <<"ok">> /\ err[p] = NoErr
       /\ \A p \in Callers :
            (Moves(p) /\ (fetchLog[p] # <<"ok">> \/ fn'[p] = "ValidateGemaraArtifact"))
               => UNCHANGED cacheVars]_vars

\* the cache is populated, one caller has finished a validation and the
\* other a call whose fetch failed
C8_Witness ==
    /\ ~IsZero(lexiconCacheTime) /\ len(lexiconCache) = 2
    /\ \E p, q \in Callers :
          /\ Done(p) /\ fn[p] = "ValidateGemaraArtifact"
          /\ Done(q) /\ IsLexiconCall(q) /\ FetchFailed(q)
\* C13: a lexicon call fetches at most once; when its fetch fails the call
\* is over, with an error and no output, and its only further step is the
\* return to the caller.
C13_NoRetry ==
    /\ [](\A p \in Callers :
            IsLexiconCall(p)
               => /\ Len(fetchLog[p]) <= 1
                  /\ FetchFailed(p) => (Done(p) /\ err[p] # NoErr /\ out[p] = NoOut))
    /\ [][\A p \in Callers :
            (Moves(p) /\ IsLexiconCall(p) /\ FetchFailed(p))
               => (pc'[p] = "idle" /\ UNCHANGED cacheVars)]_vars

\* a refresh has failed over a fresh cache of two entries, and the call
\* ended after its one fetch
C13_Witness ==
    \E p \in Callers :
        /\ Done(p) /\ IsDirectQuery(p, TRUE) /\ fetchLog[p] = <<"failed">>
        /\ Fresh /\ len(lexiconCache) = 2 /\ lexiconCache.items = <<"Assessment", "Control">>

\* C14: a caller that found the cache missing or stale can fetch at once
\* whatever the other callers are doing, leaves the fetch position only by
\* a fetch of its own, and after a successful fetch stores its own entries
\* and the present time: concurrent misses are not coalesced.
C14_NoSingleFlight ==
    /\ [](\A p \in Callers :
            /\ pc[p] = "hr_fetch" => ENABLED HRFetch(p)
            /\ pc[p] \in WritePcs => fetchLog[p] = <<"ok">>)
    /\ [][\A p \in Callers :
            /\ (Moves(p) /\ pc[p] = "hr_fetch")
                  => Len(fetchLog'[p]) = Len(fetchLog[p]) + 1
            /\ (Moves(p) /\ pc[p] = "hr_wcache") => lexiconCache'.len = entries[p].len
            /\ (Moves(p) /\ pc[p] = "hr_wptr") => lexiconCache'.items = entries[p].items
            /\ (Moves(p) /\ pc[p] = "hr_now") => regs'[p].now = now
            /\ (Moves(p) /\ pc[p] = "hr_wtime") => lexiconCacheTime' = regs[p].now]_vars

\* two non-refresh calls missed together and each has fetched: one has
\* stored its entries, the other is about to store its own
C14_Witness ==
    \E p, q \in Callers :
        /\ p # q /\ ~refresh[p] /\ ~refresh[q]
        /\ pc[p] = "hr_wtime" /\ fetchLog[p] = <<"ok">>
        /\ pc[q] = "hr_wcache" /\ fetchLog[q] = <<"ok">>
        /\ IsZero(lexiconCacheTime)

\* the stage of a call at each position of its handler
Stage(l) ==
    CASE l = "idle" -> 0
      [] l \in {"gl_fetch", "hr_check_len"} -> 1
      [] l = "hr_check_time" -> 2
      [] l = "hr_fetch" -> 3
      [] l \in {"gl_wcache", "hr_wcache"} -> 4
      [] l \in {"gl_wptr", "hr_wptr"} -> 5
      [] l \in {"gl_now", "hr_now"} -> 6
      [] l \in {"gl_wtime", "hr_wtime"} -> 7
      [] l = "hr_serve" -> 8
      [] l = "hr_marshal" -> 9
      [] l = "gl_wascached" -> 10
      [] l = "done" -> 11

InCall(p) == pc[p] \notin {"idle", "done"}

\* C15: a call moves forward only, from its start through the refresh
\* flag, the forced fetch or the freshness check, the fetch or the serve,
\* to its return; its next step can always be taken whatever the other
\* callers do, and every call that has begun returns a result or an error.
C15_RunsToCompletion ==
    /\ [][\A p \in Callers :
            (Moves(p) /\ pc[p] # "done") => Stage(pc'[p]) > Stage(pc[p])]_vars
    /\ [](\A p \in Callers : InCall(p) => ENABLED Proceed(p))
    /\ \A p \in Callers :
          InCall(p) ~> (Done(p) /\ (err[p] # NoErr \/ out[p] # NoOut))

\* one caller has returned from a non-refresh query that fetched while the
\* other caller is in the middle of a cache write
C15_Witness ==
    \E p, q \in Callers :
        /\ Done(p) /\ IsDirectQuery(p, FALSE) /\ fetchLog[p] = <<"ok">> /\ err[p] = NoErr
        /\ pc[q] \in MidWritePcs

\* the entry lists a successful fetch can decode
DecodedLists ==
    { yamlUnmarshal(b).entries : b \in { c \in Bodies : yamlUnmarshal(c).err = NoErr } }

Quiet == \A p \in Callers : pc[p] \notin WritePcs

\* C16: whenever no call is in the middle of a cache write, the cached
\* entries are the initial nil slice or the complete list, same entries in
\* the same order, decoded by one successful fetch.
C16_CacheIsOneFetch ==
    Quiet => (lexiconCache = NilSlice \/ lexiconCache \in DecodedLists)

\* the errors fetchLexiconFromURL can return
FetcherErrors ==
    { fetchLexiconFromURL(r).err : r \in UNION { Responses(b) : b \in Bodies } } \ {NoErr}

\* the context a handler puts before the error of its fetch
Context(p) ==
    IF fn[p] = "HandleLexiconResource" THEN <<"failed to fetch lexicon">>
    ELSE IF refresh[p] THEN <<>>
    ELSE <<"failed to read lexicon resource", "failed to fetch lexicon">>

\* C17 as stated: the error of a lexicon call whose fetch failed is the
\* error of fetchLexiconFromURL itself, on every path.
C17_ErrorsBubbleUnchanged ==
    \A p \in Callers :
        (IsLexiconCall(p) /\ FetchFailed(p)) => err[p] \in FetcherErrors

\* C17, amended: the error of a lexicon call whose fetch failed ends with
\* the error of fetchLexiconFromURL for the response received, which for a
\* status other than 200 names the status; GetLexicon with refresh=true
\* returns it as it is, HandleLexiconResource puts "failed to fetch
\* lexicon" before it, and GetLexicon with refresh=false puts "failed to
\* read lexicon resource" before that; the call returns no output.
C17_ErrorsKeepCause ==
    /\ [][\A p \in Callers :
            (Moves(p) /\ IsLexiconCall(p) /\ FetchFailed(p)')
               => \E r \in Responses(remote) :
                     LET e == fetchLexiconFromURL(r).err IN
                     /\ e # NoErr
                     /\ err'[p] = Context(p) \o e
                     /\ (~r.doErr /\ r.status # StatusOK)
                           => ToString(r.status) \in Range(err'[p])]_vars
    /\ [](\A p \in Callers :
            (IsLexiconCall(p) /\ FetchFailed(p))
               => /\ out[p] = NoOut
                  /\ \E e \in FetcherErrors : err[p] = Context(p) \o e)

\* a resource read and a non-refresh query have each met status 500
C17_Witness ==
    \E p, q \in Callers :
        /\ Done(p) /\ IsResourceRead(p)
        /\ err[p] = <<"failed to fetch lexicon", "unexpected status code: %d", "500">>
        /\ Done(q) /\ IsDirectQuery(q, FALSE)
        /\ err[q] = <<"failed to read lexicon resource", "failed to fetch lexicon",
                      "unexpected status code: %d", "500">>

\* the finished call of p and the call observed before it are one of each
\* entry point, begun in the same cache state at the same time with the
\* same refresh flag, and the remote source answered both alike
Comparable(p) ==
    /\ Done(p) /\ snap[p].valid /\ last.valid
    /\ {fn[p], last.fn} = {"GetLexicon", "getLexiconWithURL"}
    /\ refresh[p] = last.refresh
    /\ snap[p].cache = last.cache /\ snap[p].time = last.time
    /\ now = last.now /\ remote = last.remote
    /\ (Fetched(p) /\ last.fetched # <<>>) => fetchLog[p] = last.fetched

\* C19: GetLexicon and getLexiconWithURL, begun in the same cache state
\* with the same refresh flag and the same remote answers, agree on
\* whether they fetch, on the cache they leave, and on the entries and the
\* cached flag they return.
C19_TestEntryPointEquivalent ==
    \A p \in Callers :
        Comparable(p)
           => /\ Fetched(p) <=> last.fetched # <<>>
              /\ lexiconCache = last.endCache
              /\ lexiconCacheTime = last.endTime
              /\ Summary(p).failed = last.failed
              /\ Summary(p).entries = last.entries
              /\ Summary(p).cached = last.cached

\* C20: a non-refresh lexicon call that begins, alone, with the empty list
\* of a successful fetch in the cache and a fresh timestamp does not
\* fetch, and GetLexicon then reports cached=true.
C20_EmptyListIsCached ==
    \A p \in Callers :
        (/\ Done(p) /\ IsLexiconCall(p) /\ ~refresh[p] /\ snap[p].valid
         /\ snap[p].cache = MkSlice(<<>>)
         /\ ~IsZero(snap[p].time) /\ now - snap[p].time < lexiconCacheTTL)
           => /\ ~Fetched(p)
              /\ (fn[p] = "GetLexicon" /\ err[p] = NoErr) => out[p].cached

\* C21: the cached timestamp never moves backwards: no step of any call,
\* in any interleaving, replaces lexiconCacheTime by an earlier time.
C21_TimestampNeverMovesBack ==
    [][lexiconCacheTime' >= lexiconCacheTime]_vars

\* what a successful lexicon call hands back for the header h it read:
\* the JSON text, which GetLexicon decodes again
Returns(p, h) ==
    IF fn[p] = "GetLexicon"
    THEN out[p].entries = jsonUnmarshal(jsonMarshal(h)).entries
    ELSE out[p].contents[1].text = jsonMarshal(h)

\* C22: the entries a successful non-refresh call returns are those of a
\* header the cache held at some moment during the call, whether or not
\* the call fetched, and they are never those of the cache that was never
\* populated.
C22_ReturnsWhatCacheHeld ==
    \A p \in DOMAIN held :
        (Done(p) /\ IsLexiconCall(p) /\ ~refresh[p] /\ err[p] = NoErr)
           => /\ \E h \in held[p] : Returns(p, h)
              /\ ~Returns(p, NilSlice)
              /\ ~IsZero(lexiconCacheTime)

\* ----------------------------------------------------- validator claims
IsValidation(p) == Done(p) /\ fn[p] = "ValidateGemaraArtifact"
Malformed(p) == yamlExtract(input[p].ArtifactContent) # NoErr
Resolves(p) == NormalizeDefinition(input[p].Definition) \in SchemaDefinitions
MentionsYAML(message) ==
    message # <<>> /\ message[1] = "Validation failed: invalid YAML: %v"

\* C9 as stated: for every non-empty definition name, resolving or not,
\* text that is not YAML yields a successful call with valid=false,
\* errors and a message that mentions YAML.
C9_MalformedNeverAnError ==
    \A p \in Callers :
        (IsValidation(p) /\ Malformed(p) /\ input[p].Definition # <<>>)
           => /\ err[p] = NoErr
              /\ out[p].valid = FALSE
              /\ out[p].errors # <<>>
              /\ MentionsYAML(out[p].message)

\* C9, amended: when the schema module loads and builds and the name
\* resolves in it, text that is not YAML yields a successful call with
\* valid=false, one error and a message that mentions YAML; when the
\* module fails to load or the name does not resolve, the call returns a
\* function error.
C9_MalformedIsResult ==
    \A p \in Callers :
        (IsValidation(p) /\ Malformed(p) /\ input[p].Definition # <<>>)
           => IF cueEnv[p] = "ok" /\ Resolves(p)
              THEN /\ err[p] = NoErr
                   /\ out[p].valid = FALSE
                   /\ Len(out[p].errors) = 1
                   /\ MentionsYAML(out[p].message)
              ELSE /\ err[p] # NoErr
                   /\ out[p] = NoValidateOut

\* text that is not YAML was validated against a name given without "#"
C9_Witness ==
    \E p \in Callers :
        /\ IsValidation(p) /\ Malformed(p)
        /\ input[p].Definition = <<"ControlCatalog">>
        /\ cueEnv[p] = "ok"
        /\ err[p] = NoErr

\* C10: with an empty artifact text or an empty definition name the call
\* returns the error naming the field, makes no registry, loader, engine
\* or network call, and leaves the lexicon cache as it is.
C10_EmptyInputRejected ==
    /\ [](\A p \in Callers :
            (IsValidation(p)
               /\ (input[p].ArtifactContent = "" \/ input[p].Definition = <<>>))
               => /\ err[p] = IF input[p].ArtifactContent = ""
                              THEN <<"artifact_content is required">>
                              ELSE <<"definition is required">>
                  /\ out[p] = NoValidateOut
                  /\ cueCalls[p] = <<>>
                  /\ fetchLog[p] = <<>>)
    /\ [][\A p \in Callers :
            (Moves(p) /\ fn'[p] = "ValidateGemaraArtifact") => UNCHANGED cacheVars]_vars

\* a validation with a text but no definition name, beside a populated cache
C10_Witness ==
    \E p \in Callers :
        /\ IsValidation(p)
        /\ input[p].ArtifactContent # "" /\ input[p].Definition = <<>>
        /\ err[p] = <<"definition is required">>
        /\ len(lexiconCache) = 2

NotFound(p) == err[p] # NoErr /\ err[p][1] = "definition %s not found in schema"

\* C11: two validations of the same text in the same schema environment,
\* one under a name N that does not start with "#" and one under "#"+N,
\* both return an error or both return a result, with the same valid flag;
\* and a lookup that fails names the definition as it was given when the
\* name starts with "#", and with "#" prepended otherwise.
C11_DefinitionNormalization ==
    /\ \A p, q \in Callers :
          (/\ IsValidation(p) /\ IsValidation(q)
           /\ input[p].ArtifactContent = input[q].ArtifactContent
           /\ cueEnv[p] = cueEnv[q]
           /\ ~HasPrefix(input[p].Definition, "#")
           /\ input[q].Definition = <<"#">> \o input[p].Definition)
             => /\ (err[p] = NoErr) <=> (err[q] = NoErr)
                /\ out[p].valid = out[q].valid
    /\ \A p \in Callers :
          (IsValidation(p) /\ NotFound(p))
             => Tail(err[p]) = IF HasPrefix(input[p].Definition, "#")
                               THEN input[p].Definition
                               ELSE <<"#">> \o input[p].Definition

\* a valid catalog was validated under "ControlCatalog" by one caller and
\* under "#ControlCatalog" by the other, and both found it valid
C11_Witness ==
    \E p, q \in Callers :
        /\ IsValidation(p) /\ IsValidation(q)
        /\ input[p].Definition = <<"ControlCatalog">>
        /\ input[q].Definition = <<"#", "ControlCatalog">>
        /\ input[p].ArtifactContent = "good-ccc.yaml"
        /\ input[q].ArtifactContent = "good-ccc.yaml"
        /\ cueEnv[p] = "ok" /\ cueEnv[q] = "ok"
        /\ out[p].valid /\ out[q].valid

\* ------------------------------------------------------- resource claims

\* C12: a successful resource read returns one content item of type
\* application/json whose uri is the requested one, the canonical one when
\* none was requested, and whose text is the encoding of the cache at the
\* moment it is served; whether the call leaves its check for the fetch
\* depends on the cache and the clock alone, and the call writes to the
\* cache nothing but the entries it fetched.
C12_ResourceRead ==
    /\ [](\A p \in Callers :
            (Done(p) /\ IsResourceRead(p) /\ err[p] = NoErr)
               => /\ out[p].type = "ReadResourceResult"
                  /\ Len(out[p].contents) = 1
                  /\ out[p].contents[1].mimeType = "application/json"
                  /\ out[p].contents[1].uri =
                        IF reqURI[p] = "" THEN LexiconResourceURI ELSE reqURI[p]
                  /\ snap[p].valid
                        => out[p].contents[1].text = jsonMarshal(lexiconCache))
    /\ [][\A p \in Callers :
            (Moves(p) /\ IsResourceRead(p))
               => /\ pc[p] = "hr_marshal"
                       => /\ out'[p].contents[1].text = jsonMarshal(Loaded(p))
                          /\ UNCHANGED cacheVars
                  /\ pc[p] = "hr_check_len"
                       => (pc'[p] = "hr_fetch" <=> len(lexiconCache) = 0)
                  /\ pc[p] = "hr_check_time"
                       => (pc'[p] = "hr_fetch" <=> ~Fresh)
                  /\ pc[p] = "hr_wcache" => lexiconCache'.len = entries[p].len
                  /\ pc[p] = "hr_wptr"
                       => /\ lexiconCache'.nil = entries[p].nil
                          /\ lexiconCache'.items = entries[p].items]_vars

\* one read under the alias was served two cached entries without a fetch
\* and one read that named no URI was answered under the canonical URI
C12_Witness ==
    \E p, q \in Callers :
        /\ Done(p) /\ IsResourceRead(p) /\ err[p] = NoErr /\ ~Fetched(p)
        /\ reqURI[p] = LexiconResourceURIAlias
        /\ out[p].contents[1].uri = LexiconResourceURIAlias
        /\ out[p].contents[1].text = <<"[", "Assessment", "Control", "]">>
        /\ Done(q) /\ IsResourceRead(q) /\ err[q] = NoErr
        /\ reqURI[q] = ""
        /\ out[q].contents[1].uri = LexiconResourceURI

LineIsBlank(e) == Len(e) = 1 /\ IsBlank(e[1])

\* C18: a validation that returns a result returns either valid=true with
\* no errors and the message "Artifact is valid", or valid=false with at
\* least one error, no blank error line and a message.
C18_ResultWellFormed ==
    \A p \in Callers :
        (IsValidation(p) /\ err[p] = NoErr)
           => IF out[p].valid
              THEN /\ out[p].errors = <<>>
                   /\ out[p].message = <<"Artifact is valid">>
              ELSE /\ out[p].errors # <<>>
                   /\ \A i \in DOMAIN out[p].errors : ~LineIsBlank(out[p].errors[i])
                   /\ out[p].message # <<>>

\* a document of another kind was rejected with the two diagnostics of a
\* report that had blank lines around and between them
C18_Witness ==
    \E p \in Callers :
        /\ IsValidation(p) /\ err[p] = NoErr /\ ~out[p].valid
        /\ input[p].ArtifactContent = "kind: ConfigMap"
        /\ out[p].errors = << <<"#ControlCatalog.metadata: field is required">>,
                              <<"kind: field not allowed">> >>

====
